---- MODULE Spec2Model ----
(***************************************************************************)
(* A model of dogehouse/entities.py: the entity constructors and parsers   *)
(* (BaseUser, Permission, User, UserPreview, Room, Message), the narrowing *)
(* User.to_base_user, and the three convert() resolvers.                   *)
(*                                                                         *)
(* Python values are tagged records [py |-> <type>, v |-> <value>] so that *)
(* None can stand where a str, int, bool, dict or list is expected.        *)
(* A call's result is an outcome: Ok(value) or Raise(exception name).      *)
(***************************************************************************)
EXTENDS Integers, Sequences, FiniteSets, TLC

VARIABLES call, u, last, msg,
          pc, cls, argument, fetches, reply, ret, client, directory

vars == <<call, u, last, msg, pc, cls, argument, fetches, reply, ret, client, directory>>

entityVars == <<call, u, last, msg>>
resolverVars == <<pc, cls, argument, fetches, reply, ret, client, directory>>

(***************************************************************************)
(* Bounds of the model.                                                    *)
(***************************************************************************)
MaxTokens == 2
MaxPreview == 2
NumCalls == 2

(***************************************************************************)
(* Python values and outcomes.                                             *)
(***************************************************************************)
None == [py |-> "None"]
Absent == [py |-> "absent"]
S(s) == [py |-> "str", v |-> s]
I(n) == [py |-> "int", v |-> n]
B(b) == [py |-> "bool", v |-> b]
D(d) == [py |-> "dict", v |-> d]
L(l) == [py |-> "list", v |-> l]

Ok(x) == [ok |-> TRUE, val |-> x]
Raise(e) == [ok |-> FALSE, err |-> e]
NotYet == [ok |-> FALSE, err |-> "pending"]

\* A dict built from a record of per-key choices: a key whose choice is Absent
\* is not in the dict.
Strip(r) == [k \in {x \in DOMAIN r : r[x] # Absent} |-> r[k]]

\* dict.get(k): the value, or None when the key is missing.
Get(d, k) == IF k \in DOMAIN d THEN d[k] ELSE None

\* The positions of the keys of `keys` (in evaluation order) missing from d.
MissingAt(d, keys) == {i \in 1..Len(keys) : keys[i] \notin DOMAIN d}

\* d[k1], d[k2], ... evaluated left to right: all present, or KeyError.
HasAll(d, keys) == MissingAt(d, keys) = {}

\* bool(x) for the values Permission.from_dict tests.
Truthy(x) == IF x.py = "dict" THEN DOMAIN x.v # {} ELSE x.py # "None"

\* str(x) inside an f-string.
Format(x) == IF x.py = "None" THEN "None" ELSE x.v

(***************************************************************************)
(* dateutil.parser.isoparse, on the date formats YYYY, YYYY-MM and         *)
(* YYYY-MM-DD. A timestamp string is a sequence of characters.             *)
(***************************************************************************)
Digits == <<"0", "1", "2", "3", "4", "5", "6", "7", "8", "9">>

IsDigit(c) == \E i \in 1..10 : Digits[i] = c

DigitVal(c) == (CHOOSE i \in 1..10 : Digits[i] = c) - 1

AllDigits(s, from, to) == \A i \in from..to : IsDigit(s[i])

Num2(s, i) == 10 * DigitVal(s[i]) + DigitVal(s[i + 1])

Num4(s, i) == 100 * Num2(s, i) + Num2(s, i + 2)

DaysIn(m) == IF m = 2 THEN 29 ELSE IF m \in {4, 6, 9, 11} THEN 30 ELSE 31

Instant(y, m, d) == [year |-> y, month |-> m, day |-> d]

ParseIsoDate(s) ==
    IF Len(s) = 4 /\ AllDigits(s, 1, 4) /\ Num4(s, 1) >= 1
    THEN Ok(Instant(Num4(s, 1), 1, 1))
    ELSE IF /\ Len(s) = 7 /\ AllDigits(s, 1, 4) /\ s[5] = "-" /\ AllDigits(s, 6, 7)
            /\ Num4(s, 1) >= 1 /\ Num2(s, 6) \in 1..12
    THEN Ok(Instant(Num4(s, 1), Num2(s, 6), 1))
    ELSE IF /\ Len(s) = 10 /\ AllDigits(s, 1, 4) /\ s[5] = "-" /\ AllDigits(s, 6, 7)
            /\ s[8] = "-" /\ AllDigits(s, 9, 10)
            /\ Num4(s, 1) >= 1 /\ Num2(s, 6) \in 1..12
            /\ Num2(s, 9) \in 1..DaysIn(Num2(s, 6))
    THEN Ok(Instant(Num4(s, 1), Num2(s, 6), Num2(s, 9)))
    ELSE Raise("ValueError")

isoparse(x) == IF x.py = "str" THEN ParseIsoDate(x.v) ELSE Raise("TypeError")

(***************************************************************************)
(* utils.parsers.parse_tokens_to_message: each segment rendered in order,  *)
(* concatenated with no separator. An unknown kind renders as its literal  *)
(* text if it has one and as nothing otherwise; a known kind without its   *)
(* text is an error.                                                       *)
(***************************************************************************)
KnownKinds == {"text", "mention", "emote", "link"}

TokenOk(tok) == "t" \in DOMAIN tok /\ (tok.t \in KnownKinds => "v" \in DOMAIN tok)

RenderToken(tok) ==
    IF tok.t = "text" \/ tok.t = "link" THEN tok.v
    ELSE IF tok.t = "mention" THEN "@" \o tok.v
    ELSE IF tok.t = "emote" THEN ":" \o tok.v \o ":"
    ELSE IF "v" \in DOMAIN tok THEN tok.v
    ELSE ""

RECURSIVE Concat(_)
Concat(toks) == IF toks = <<>> THEN "" ELSE RenderToken(Head(toks)) \o Concat(Tail(toks))

parse_tokens(tokens) ==
    IF tokens.py # "list" THEN Raise("TypeError")
    ELSE IF \E i \in 1..Len(tokens.v) : ~TokenOk(tokens.v[i]) THEN Raise("KeyError")
    ELSE Ok(S(Concat(tokens.v)))

(***************************************************************************)
(* The entities.                                                           *)
(***************************************************************************)
NoObject == [kind |-> "none"]

BaseUserInit(id, username, displayname, avatar_url) ==
    [kind |-> "BaseUser", id |-> id, username |-> username,
     displayname |-> displayname, avatar_url |-> avatar_url,
     mention |-> S("@" \o Format(username))]

BaseUserFromDict(data) ==
    BaseUserInit(Get(data, "userId"), Get(data, "username"),
                 Get(data, "displayName"), Get(data, "avatarUrl"))

PermissionInit(asked_to_speak, is_mod, is_admin) ==
    [kind |-> "Permission", asked_to_speak |-> asked_to_speak,
     is_mod |-> is_mod, is_admin |-> is_admin]

PermissionFromDict_NoneOnly(data) ==
    IF data.py # "None"
    THEN PermissionInit(Get(data.v, "askedToSpeak"), Get(data.v, "isMod"),
                        Get(data.v, "isAdmin"))
    ELSE PermissionInit(B(FALSE), B(FALSE), B(FALSE))

PermissionFromDict(data) ==
    IF Truthy(data)
    THEN PermissionInit(Get(data.v, "askedToSpeak"), Get(data.v, "isMod"),
                        Get(data.v, "isAdmin"))
    ELSE PermissionInit(B(FALSE), B(FALSE), B(FALSE))

UserInit_EpochDefault(id, username, displayname, avatar_url, bio, last_seen, online, following, room_permissions, num_followers, num_following, follows_me, current_room_id) ==
    LET base == BaseUserInit(id, username, displayname, avatar_url)
        ts == isoparse(last_seen)
    IN  Ok([kind |-> "User", id |-> base.id, username |-> base.username,
            displayname |-> base.displayname, avatar_url |-> base.avatar_url,
            mention |-> base.mention, bio |-> bio,
            last_seen |-> IF ts.ok THEN ts.val ELSE Instant(1970, 1, 1),
            online |-> online, following |-> following,
            room_permissions |-> room_permissions,
            num_followers |-> num_followers, num_following |-> num_following,
            follows_me |-> follows_me, current_room_id |-> current_room_id])

UserInit(id, username, displayname, avatar_url, bio, last_seen, online, following, room_permissions, num_followers, num_following, follows_me, current_room_id) ==
    LET base == BaseUserInit(id, username, displayname, avatar_url)
        ts == isoparse(last_seen)
    IN  IF ~ts.ok THEN ts
        ELSE Ok([kind |-> "User", id |-> base.id, username |-> base.username,
                 displayname |-> base.displayname, avatar_url |-> base.avatar_url,
                 mention |-> base.mention, bio |-> bio, last_seen |-> ts.val,
                 online |-> online, following |-> following,
                 room_permissions |-> room_permissions,
                 num_followers |-> num_followers, num_following |-> num_following,
                 follows_me |-> follows_me, current_room_id |-> current_room_id])

UserFromDict(data) ==
    UserInit(Get(data, "id"), Get(data, "username"), Get(data, "displayName"),
             Get(data, "avatarUrl"), Get(data, "bio"), Get(data, "lastOnline"),
             Get(data, "online"), Get(data, "youAreFollowing"),
             PermissionFromDict(Get(data, "roomPermissions")),
             Get(data, "numFollowers"), Get(data, "numFollowing"),
             Get(data, "followsYou"), Get(data, "currentRoomId"))

ToBaseUser_StaleMention(self) ==
    [BaseUserInit(self.id, self.username, self.displayname, self.avatar_url)
        EXCEPT !.mention = self.mention]

ToBaseUser(self) ==
    BaseUserInit(self.id, self.username, self.displayname, self.avatar_url)

UserPreviewInit(id, displayname, num_followers) ==
    [kind |-> "UserPreview", id |-> id, displayname |-> displayname,
     num_followers |-> num_followers]

UserPreviewFromDict(data) ==
    IF HasAll(data, <<"id", "displayName", "numFollowers">>)
    THEN Ok(UserPreviewInit(data["id"], data["displayName"], data["numFollowers"]))
    ELSE Raise("KeyError")

RoomInit(id, creator_id, name, description, created_at, is_private, count, users) ==
    LET ts == isoparse(created_at)
    IN  IF ~ts.ok THEN ts
        ELSE Ok([kind |-> "Room", id |-> id, creator_id |-> creator_id, name |-> name,
                 description |-> description, created_at |-> ts.val,
                 is_private |-> is_private, count |-> count, users |-> users])

RoomKeys == <<"id", "creatorId", "name", "description", "inserted_at", "isPrivate",
              "numPeopleInside", "peoplePreviewList">>

RoomFromDict_CountFromUsers(data) ==
    IF ~HasAll(data, RoomKeys) THEN Raise("KeyError")
    ELSE LET list == data["peoplePreviewList"].v
             previews == [i \in 1..Len(list) |-> UserPreviewFromDict(list[i].v)]
         IN  IF \E i \in 1..Len(list) : ~previews[i].ok THEN Raise("KeyError")
             ELSE RoomInit(data["id"], data["creatorId"], data["name"],
                           data["description"], data["inserted_at"], data["isPrivate"],
                           I(Len(list)),
                           [i \in 1..Len(list) |-> previews[i].val])

RoomFromDict(data) ==
    IF ~HasAll(data, RoomKeys) THEN Raise("KeyError")
    ELSE LET list == data["peoplePreviewList"].v
             previews == [i \in 1..Len(list) |-> UserPreviewFromDict(list[i].v)]
         IN  IF \E i \in 1..Len(list) : ~previews[i].ok THEN Raise("KeyError")
             ELSE RoomInit(data["id"], data["creatorId"], data["name"],
                           data["description"], data["inserted_at"], data["isPrivate"],
                           data["numPeopleInside"],
                           [i \in 1..Len(list) |-> previews[i].val])

MessageInit_NoRender(id, tokens, is_wisper, created_at, author) ==
    LET ts == isoparse(created_at)
        content == parse_tokens(tokens)
    IN  IF ~ts.ok THEN ts
        ELSE IF ~content.ok THEN content
        ELSE Ok([kind |-> "Message", id |-> id, tokens |-> tokens,
                 is_wisper |-> is_wisper, created_at |-> ts.val, author |-> author,
                 content |-> S("")])

MessageInit(id, tokens, is_wisper, created_at, author) ==
    LET ts == isoparse(created_at)
        content == parse_tokens(tokens)
    IN  IF ~ts.ok THEN ts
        ELSE IF ~content.ok THEN content
        ELSE Ok([kind |-> "Message", id |-> id, tokens |-> tokens,
                 is_wisper |-> is_wisper, created_at |-> ts.val, author |-> author,
                 content |-> content.val])

MessageKeys == <<"id", "tokens", "isWhisper", "sentAt">>

MessageFromDict(data) ==
    IF ~HasAll(data, MessageKeys) THEN Raise("KeyError")
    ELSE MessageInit(data["id"], data["tokens"], data["isWhisper"], data["sentAt"],
                     BaseUserFromDict(data))

(***************************************************************************)
(* The payloads the parsers are applied to.                                *)
(***************************************************************************)
GoodTs == S(<<"2", "0", "2", "1", "-", "0", "3", "-", "1", "4">>)
BadMonthTs == S(<<"2", "0", "2", "1", "-", "1", "3", "-", "1", "4">>)
NotADate == S(<<"n", "o", "t", "-", "a", "-", "d", "a", "t", "e">>)

MalformedTs == {BadMonthTs, NotADate}

TsChoices == {Absent, GoodTs} \cup MalformedTs

FullPermissions == D([askedToSpeak |-> B(TRUE), isMod |-> B(TRUE), isAdmin |-> B(FALSE)])

PermissionInputs == {None, D(<<>>), FullPermissions, D([isMod |-> B(TRUE)])}

BaseUserPayloads ==
    {Strip(r) : r \in [userId : {Absent, S("u1")}, username : {Absent, S("alice")},
                       displayName : {Absent, S("Alice")},
                       avatarUrl : {Absent, S("a.png")}]}

UserPayloads ==
    {Strip(r) : r \in [id : {Absent, S("u1")}, username : {Absent, S("alice")},
                       displayName : {Absent, S("Alice")},
                       avatarUrl : {Absent, S("a.png")}, bio : {S("hi")},
                       lastOnline : TsChoices, online : {B(TRUE)},
                       youAreFollowing : {B(FALSE)},
                       roomPermissions : {Absent, None, D(<<>>), FullPermissions},
                       numFollowers : {I(7)}, numFollowing : {I(3)},
                       followsYou : {B(FALSE)}, currentRoomId : {S("r1")}]}

UserPreviewPayloads ==
    {Strip(r) : r \in [id : {Absent, S("u1")}, displayName : {Absent, S("Alice")},
                       numFollowers : {Absent, I(7)}]}

PreviewElems ==
    {D([id |-> S("u1"), displayName |-> S("Alice"), numFollowers |-> I(7)]),
     D([id |-> S("u2"), displayName |-> S("Bob"), numFollowers |-> I(0)]),
     D([displayName |-> S("Eve"), numFollowers |-> I(1)])}

SeqsUpTo(elems, n) == UNION {[1..k -> elems] : k \in 0..n}

RoomPayloads ==
    {Strip(r) : r \in [id : {Absent, S("r1")}, creatorId : {S("u1")},
                       name : {Absent, S("lobby")}, description : {S("")},
                       inserted_at : TsChoices, isPrivate : {B(FALSE)},
                       numPeopleInside : {Absent, I(0), I(2), I(50)},
                       peoplePreviewList :
                           {Absent} \cup {L(l) : l \in SeqsUpTo(PreviewElems, MaxPreview)}]}

TokenChoices ==
    {[t |-> "text", v |-> "hi"], [t |-> "mention", v |-> "bob"],
     [t |-> "block", v |-> "q"], [t |-> "block"], [t |-> "text"]}

TokenLists == {L(l) : l \in SeqsUpTo(TokenChoices, MaxTokens)}

MessagePayloads ==
    {Strip(r) : r \in [id : {Absent, S("m1")}, tokens : {Absent} \cup TokenLists,
                       isWhisper : {B(FALSE), B(TRUE)}, sentAt : TsChoices,
                       userId : {Absent, S("u1")}, username : {S("alice")}]}

MessageArgs ==
    [id : {S("m1")}, tokens : TokenLists, is_wisper : {B(FALSE)},
     created_at : {None, GoodTs} \cup MalformedTs,
     author : {BaseUserInit(S("u1"), S("alice"), S("Alice"), None)}]

Calls(fn, args) == {[fn |-> fn, arg |-> a, done |-> FALSE, ret |-> NotYet] : a \in args}

AttrChoices == {None, S("bob")}

SharedAttrs == {"id", "username", "displayname", "avatar_url"}

(***************************************************************************)
(* The entity operations. One call is drawn at the start; its result stays *)
(* in call.ret, and a User or Message it built lives on in u or msg, where *)
(* its attributes can be assigned and its methods called.                  *)
(***************************************************************************)
ResolverIdle ==
    /\ pc = [i \in 1..NumCalls |-> "idle"]
    /\ cls = [i \in 1..NumCalls |-> "none"]
    /\ argument = [i \in 1..NumCalls |-> [at |-> FALSE, name |-> ""]]
    /\ fetches = [i \in 1..NumCalls |-> 0]
    /\ reply = [i \in 1..NumCalls |-> NotYet]
    /\ ret = [i \in 1..NumCalls |-> NotYet]
    /\ client = [user |-> None, room |-> None]
    /\ directory = [n \in {} |-> None]

Init ==
    /\ call \in Calls("BaseUser.from_dict", BaseUserPayloads)
                \cup Calls("Permission.from_dict", PermissionInputs)
                \cup Calls("User.from_dict", UserPayloads)
                \cup Calls("UserPreview.from_dict", UserPreviewPayloads)
                \cup Calls("Room.from_dict", RoomPayloads)
                \cup Calls("Message.from_dict", MessagePayloads)
                \cup Calls("Message", MessageArgs)
    /\ u = NoObject
    /\ msg = NoObject
    /\ last = NoObject
    /\ ResolverIdle

Return(r) == call' = [call EXCEPT !.done = TRUE, !.ret = r]

CallBaseUserFromDict ==
    /\ call.fn = "BaseUser.from_dict" /\ ~call.done
    /\ Return(Ok(BaseUserFromDict(call.arg)))
    /\ UNCHANGED <<u, last, msg, resolverVars>>

CallPermissionFromDict ==
    /\ call.fn = "Permission.from_dict" /\ ~call.done
    /\ Return(Ok(PermissionFromDict(call.arg)))
    /\ UNCHANGED <<u, last, msg, resolverVars>>

CallUserFromDict ==
    /\ call.fn = "User.from_dict" /\ ~call.done
    /\ LET r == UserFromDict(call.arg)
       IN  /\ Return(r)
           /\ u' = IF r.ok THEN r.val ELSE u
    /\ UNCHANGED <<last, msg, resolverVars>>

CallUserPreviewFromDict ==
    /\ call.fn = "UserPreview.from_dict" /\ ~call.done
    /\ Return(UserPreviewFromDict(call.arg))
    /\ UNCHANGED <<u, last, msg, resolverVars>>

CallRoomFromDict ==
    /\ call.fn = "Room.from_dict" /\ ~call.done
    /\ Return(RoomFromDict(call.arg))
    /\ UNCHANGED <<u, last, msg, resolverVars>>

CallMessageFromDict ==
    /\ call.fn = "Message.from_dict" /\ ~call.done
    /\ LET r == MessageFromDict(call.arg)
       IN  /\ Return(r)
           /\ msg' = IF r.ok THEN r.val ELSE msg
    /\ UNCHANGED <<u, last, resolverVars>>

CallMessage ==
    /\ call.fn = "Message" /\ ~call.done
    /\ LET a == call.arg
           r == MessageInit(a.id, a.tokens, a.is_wisper, a.created_at, a.author)
       IN  /\ Return(r)
           /\ msg' = IF r.ok THEN r.val ELSE msg
    /\ UNCHANGED <<u, last, resolverVars>>

\* u.<attr> = x: the attributes of a User are plain and assignable.
SetUserAttr(attr, x) ==
    /\ u.kind = "User"
    /\ u' = [u EXCEPT ![attr] = x]
    /\ UNCHANGED <<call, last, msg, resolverVars>>

\* u.to_base_user(), recorded with the User it was called on.
CallToBaseUser ==
    /\ u.kind = "User"
    /\ last' = [kind |-> "to_base_user", self |-> u, ret |-> ToBaseUser(u)]
    /\ UNCHANGED <<call, u, msg, resolverVars>>

\* msg.tokens.append(tok): tokens is the caller's list, held by reference.
TokensAppend(tok) ==
    /\ msg.kind = "Message"
    /\ Len(msg.tokens.v) < MaxTokens
    /\ msg' = [msg EXCEPT !.tokens = L(Append(@.v, tok))]
    /\ UNCHANGED <<call, u, last, resolverVars>>

\* msg.tokens.pop()
TokensPop ==
    /\ msg.kind = "Message"
    /\ Len(msg.tokens.v) > 0
    /\ msg' = [msg EXCEPT !.tokens = L(SubSeq(@.v, 1, Len(@.v) - 1))]
    /\ UNCHANGED <<call, u, last, resolverVars>>

Next ==
    \/ CallBaseUserFromDict
    \/ CallPermissionFromDict
    \/ CallUserFromDict
    \/ CallUserPreviewFromDict
    \/ CallRoomFromDict
    \/ CallMessageFromDict
    \/ CallMessage
    \/ \E attr \in SharedAttrs, x \in AttrChoices : SetUserAttr(attr, x)
    \/ CallToBaseUser
    \/ \E tok \in TokenChoices : TokensAppend(tok)
    \/ TokensPop

Spec == Init /\ [][Next]_vars

(***************************************************************************)
(* The resolvers. A command argument is the string                         *)
(* (IF at THEN "@" ELSE "") \o name. Convertor._get_user strips a leading  *)
(* "@", fetches the user once through the client and raises UserNotFound   *)
(* when the fetch finds nobody.                                            *)
(***************************************************************************)
Arguments ==
    {[at |-> TRUE, name |-> "alice"], [at |-> FALSE, name |-> "alice"],
     [at |-> FALSE, name |-> "bob"], [at |-> FALSE, name |-> "carol"]}

NoArgument == [at |-> FALSE, name |-> ""]

Classes == {"BaseUser", "User", "UserPreview"}

Alice ==
    UserFromDict([id |-> S("u1"), username |-> S("alice"), displayName |-> S("Alice"),
                  avatarUrl |-> S("a.png"), bio |-> S("hi"), lastOnline |-> GoodTs,
                  online |-> B(TRUE), youAreFollowing |-> B(FALSE),
                  numFollowers |-> I(7), numFollowing |-> I(3),
                  followsYou |-> B(FALSE), currentRoomId |-> S("r1")]).val

Bob ==
    UserFromDict([id |-> S("u2"), username |-> S("bob"), avatarUrl |-> S("b.png"),
                  lastOnline |-> GoodTs, numFollowers |-> I(0), numFollowing |-> I(9)]).val

Directories ==
    {[n \in {} |-> Alice], [n \in {"alice", "bob"} |-> IF n = "alice" THEN Alice ELSE Bob]}

LookupKey(a) == a.name

\* client.fetch_user: the user, or None when there is none.
FetchUser(dir, key) == IF key \in DOMAIN dir THEN Ok(dir[key]) ELSE Ok(None)

GetUserFetch(f, i) == [f EXCEPT ![i] = @ + 1]

GetUserResult(rep) ==
    IF rep.ok /\ rep.val = None THEN Raise("UserNotFound") ELSE rep

BaseUserConvert_Swallow(r) == IF r.ok THEN Ok(ToBaseUser(r.val)) ELSE Ok(None)

BaseUserConvert(r) == IF r.ok THEN Ok(ToBaseUser(r.val)) ELSE r

UserConvert(r) == r

UserPreviewConvert_Following(r) ==
    IF r.ok THEN Ok(UserPreviewInit(r.val.id, r.val.displayname, r.val.num_following))
    ELSE r

UserPreviewConvert(r) ==
    IF r.ok THEN Ok(UserPreviewInit(r.val.id, r.val.displayname, r.val.num_followers))
    ELSE r

Convert(c, r) ==
    IF c = "BaseUser" THEN BaseUserConvert(r)
    ELSE IF c = "User" THEN UserConvert(r)
    ELSE UserPreviewConvert(r)

InitResolver ==
    /\ call = [fn |-> "none", arg |-> None, done |-> TRUE, ret |-> NotYet]
    /\ u = NoObject
    /\ msg = NoObject
    /\ last = NoObject
    /\ pc = [i \in 1..NumCalls |-> "idle"]
    /\ cls = [i \in 1..NumCalls |-> "none"]
    /\ argument = [i \in 1..NumCalls |-> NoArgument]
    /\ fetches = [i \in 1..NumCalls |-> 0]
    /\ reply = [i \in 1..NumCalls |-> NotYet]
    /\ ret = [i \in 1..NumCalls |-> NotYet]
    /\ client = [user |-> None, room |-> None]
    /\ directory \in Directories

\* cls.convert(ctx, param, a) up to its await: _get_user is entered and the
\* fetch is with the transport.
ConvertCall(i, c, a) ==
    /\ pc[i] = "idle"
    /\ pc' = [pc EXCEPT ![i] = "awaiting"]
    /\ cls' = [cls EXCEPT ![i] = c]
    /\ argument' = [argument EXCEPT ![i] = a]
    /\ fetches' = GetUserFetch(fetches, i)
    /\ UNCHANGED <<reply, ret, client, directory, entityVars>>

\* The transport answers the fetch of call i, or fails.
FetchReply(i) ==
    /\ pc[i] = "awaiting"
    /\ \E r \in {FetchUser(directory, LookupKey(argument[i])), Raise("TransportError")} :
           reply' = [reply EXCEPT ![i] = r]
    /\ pc' = [pc EXCEPT ![i] = "replied"]
    /\ UNCHANGED <<cls, argument, fetches, ret, client, directory, entityVars>>

ConvertResume_Retry(i) ==
    /\ pc[i] = "replied"
    /\ IF reply[i].ok /\ reply[i].val = None /\ fetches[i] < 2
       THEN /\ pc' = [pc EXCEPT ![i] = "awaiting"]
            /\ fetches' = GetUserFetch(fetches, i)
            /\ ret' = ret
       ELSE /\ pc' = [pc EXCEPT ![i] = "done"]
            /\ fetches' = fetches
            /\ ret' = [ret EXCEPT ![i] = Convert(cls[i], GetUserResult(reply[i]))]
    /\ UNCHANGED <<cls, argument, reply, client, directory, entityVars>>

ConvertResume_SharedSlot(i) ==
    /\ pc[i] = "replied"
    /\ pc' = [pc EXCEPT ![i] = "done"]
    /\ ret' = [ret EXCEPT ![i] = Convert(cls[i], GetUserResult(reply[i]))]
    /\ client' = [client EXCEPT !.user = IF reply[i].ok THEN reply[i].val ELSE @]
    /\ UNCHANGED <<cls, argument, fetches, reply, directory, entityVars>>

\* The await of call i returns: the convert narrows the user or lets the
\* exception through.
ConvertResume(i) ==
    /\ pc[i] = "replied"
    /\ pc' = [pc EXCEPT ![i] = "done"]
    /\ ret' = [ret EXCEPT ![i] = Convert(cls[i], GetUserResult(reply[i]))]
    /\ UNCHANGED <<cls, argument, fetches, reply, client, directory, entityVars>>

\* The gateway layer sets the client's room on a join or a leave.
GatewaySetRoom(r) ==
    /\ client.room # r
    /\ client' = [client EXCEPT !.room = r]
    /\ UNCHANGED <<pc, cls, argument, fetches, reply, ret, directory, entityVars>>

NextResolver ==
    \/ \E i \in 1..NumCalls, c \in Classes, a \in Arguments : ConvertCall(i, c, a)
    \/ \E i \in 1..NumCalls : FetchReply(i)
    \/ \E i \in 1..NumCalls : ConvertResume(i)
    \/ \E r \in {None, S("r1")} : GatewaySetRoom(r)

SpecResolver == InitResolver /\ [][NextResolver]_vars

(***************************************************************************)
(* The properties.                                                         *)
(***************************************************************************)
Parsed(fn) == call.done /\ call.fn = fn

\* The tokens a Message was constructed from.
CtorTokens == IF call.fn = "Message" THEN call.arg.tokens ELSE call.arg["tokens"]

\* C1 as stated: in every state a Message's content is the rendering of the
\* tokens it holds, also after its tokens were changed.
C1_ContentRendersCurrentTokens ==
    msg.kind = "Message" =>
        /\ parse_tokens(msg.tokens).ok
        /\ msg.content = parse_tokens(msg.tokens).val

\* C1 amended: a Message's content is the rendering of the tokens it was
\* constructed from; it equals the rendering of the tokens it holds for as long
\* as they are unchanged, and is not recomputed when they change.
C1_ContentRendersConstructionTokens ==
    msg.kind = "Message" =>
        /\ parse_tokens(CtorTokens).ok
        /\ msg.content = parse_tokens(CtorTokens).val
        /\ call.ret.val.content = parse_tokens(call.ret.val.tokens).val
        /\ (msg.tokens = CtorTokens => msg.content = parse_tokens(msg.tokens).val)

C1_Witness ==
    /\ msg.kind = "Message"
    /\ msg.tokens # CtorTokens
    /\ Len(CtorTokens.v) = 2
    /\ msg.content = S("hi@bob")

\* C2: to_base_user() returns a BaseUser with the id, username, displayname and
\* avatar_url the User has when it is called, and mention "@" + username.
C2_ToBaseUserProjects ==
    last.kind = "to_base_user" =>
        /\ last.ret.kind = "BaseUser"
        /\ last.ret.id = last.self.id
        /\ last.ret.username = last.self.username
        /\ last.ret.displayname = last.self.displayname
        /\ last.ret.avatar_url = last.self.avatar_url
        /\ last.ret.mention = S("@" \o Format(last.self.username))

C2_Witness ==
    /\ last.kind = "to_base_user"
    /\ call.ret.val.username = S("alice")
    /\ last.self.username = S("bob")
    /\ last.ret.mention = S("@bob")

\* The user the fetch of call i found, when it found one.
GotUser(i) == pc[i] = "done" /\ reply[i].ok /\ reply[i].val # None

GotNobody(i) == pc[i] = "done" /\ reply[i].ok /\ reply[i].val = None

\* C3: when the lookup returns a User, convert returns it narrowed to the
\* requested shape, every field taken from that User.
C3_ConvertNarrows ==
    \A i \in 1..NumCalls : GotUser(i) =>
        LET user == reply[i].val
        IN  /\ ret[i].ok
            /\ cls[i] = "User" => ret[i].val = user
            /\ cls[i] = "BaseUser" =>
                   ret[i].val = [kind |-> "BaseUser", id |-> user.id,
                                 username |-> user.username,
                                 displayname |-> user.displayname,
                                 avatar_url |-> user.avatar_url,
                                 mention |-> S("@" \o Format(user.username))]
            /\ cls[i] = "UserPreview" =>
                   ret[i].val = [kind |-> "UserPreview", id |-> user.id,
                                 displayname |-> user.displayname,
                                 num_followers |-> user.num_followers]

C3_Witness ==
    \E i, j \in 1..NumCalls :
        /\ GotUser(i) /\ cls[i] = "UserPreview" /\ ret[i].val.num_followers = I(7)
        /\ GotUser(j) /\ cls[j] = "BaseUser" /\ ret[j].val.id = S("u2")

\* C4: when the lookup finds nobody, every convert ends in UserNotFound and
\* returns nothing.
C4_AbsenceIsUserNotFound ==
    \A i \in 1..NumCalls : GotNobody(i) => ~ret[i].ok /\ ret[i].err = "UserNotFound"

C4_Witness ==
    \E i, j \in 1..NumCalls :
        /\ GotNobody(i) /\ cls[i] = "BaseUser" /\ ~ret[i].ok
        /\ GotNobody(j) /\ cls[j] = "UserPreview" /\ ~ret[j].ok

TsParsers == {"User.from_dict", "Room.from_dict", "Message.from_dict", "Message"}

\* The timestamp of the payload of the call.
TsOf ==
    IF call.fn = "User.from_dict" THEN Get(call.arg, "lastOnline")
    ELSE IF call.fn = "Room.from_dict" THEN Get(call.arg, "inserted_at")
    ELSE IF call.fn = "Message.from_dict" THEN Get(call.arg, "sentAt")
    ELSE call.arg.created_at

MalformedTsParsed == call.done /\ call.fn \in TsParsers /\ TsOf \in MalformedTs

ReachesInit ==
    /\ call.fn = "Room.from_dict" =>
           /\ HasAll(call.arg, RoomKeys)
           /\ \A i \in 1..Len(call.arg["peoplePreviewList"].v) :
                  UserPreviewFromDict(call.arg["peoplePreviewList"].v[i].v).ok
    /\ call.fn = "Message.from_dict" => HasAll(call.arg, MessageKeys)

IdMissing ==
    IF call.fn = "BaseUser.from_dict" THEN "userId" \notin DOMAIN call.arg
    ELSE IF call.fn = "Message.from_dict"
    THEN "id" \notin DOMAIN call.arg \/ "userId" \notin DOMAIN call.arg
    ELSE "id" \notin DOMAIN call.arg

EntityParsers ==
    {"BaseUser.from_dict", "User.from_dict", "UserPreview.from_dict", "Room.from_dict",
     "Message.from_dict"}

\* C6: a payload without the id of the entity (or, for a Message, of its
\* author) fails the parse: no parser returns an entity whose id is None.
C6_MissingIdFailsParse ==
    (call.done /\ call.fn \in EntityParsers /\ IdMissing) => ~call.ret.ok

AllFalse ==
    [kind |-> "Permission", asked_to_speak |-> B(FALSE), is_mod |-> B(FALSE),
     is_admin |-> B(FALSE)]

\* C7: Permission.from_dict(None) and Permission.from_dict({}) are all-false,
\* and so is the room_permissions of a User parsed without roomPermissions.
C7_NoPermissionsIsAllFalse ==
    /\ (Parsed("Permission.from_dict") /\ call.arg \in {None, D(<<>>)}) =>
           call.ret.val = AllFalse
    /\ (Parsed("User.from_dict") /\ call.ret.ok
            /\ "roomPermissions" \notin DOMAIN call.arg) =>
           call.ret.val.room_permissions = AllFalse /\ u.room_permissions = AllFalse

C7_Witness == Parsed("Permission.from_dict") /\ call.arg = D(<<>>) /\ call.ret.ok

\* C8: Room.from_dict takes count from numPeopleInside and users from
\* peoplePreviewList, one UserPreview per element in order; count is not the
\* length of users.
C8_RoomCountAndUsers ==
    (Parsed("Room.from_dict") /\ call.ret.ok) =>
        LET room == call.ret.val
            list == call.arg["peoplePreviewList"].v
        IN  /\ room.count = call.arg["numPeopleInside"]
            /\ Len(room.users) = Len(list)
            /\ \A i \in 1..Len(list) :
                   room.users[i] = [kind |-> "UserPreview", id |-> list[i].v["id"],
                                    displayname |-> list[i].v["displayName"],
                                    num_followers |-> list[i].v["numFollowers"]]

C8_Witness ==
    /\ Parsed("Room.from_dict") /\ call.ret.ok
    /\ call.ret.val.count = I(50)
    /\ Len(call.ret.val.users) = 2
    /\ call.ret.val.users[1].id = S("u2")
    /\ call.ret.val.users[2].id = S("u1")

\* What convert(c, a) returns when it runs alone against the directory.
AloneOutcomes(c, a) ==
    {Convert(c, GetUserResult(r)) :
        r \in {FetchUser(directory, LookupKey(a)), Raise("TransportError")}}

\* A step of call i leaves the client and every other call as they were.
StepsAlone(i) ==
    pc'[i] # pc[i] =>
        /\ client' = client
        /\ directory' = directory
        /\ \A j \in 1..NumCalls \ {i} :
               /\ pc'[j] = pc[j] /\ cls'[j] = cls[j] /\ argument'[j] = argument[j]
               /\ fetches'[j] = fetches[j] /\ reply'[j] = reply[j] /\ ret'[j] = ret[j]

\* C9: under any interleaving each convert ends as it would alone, and its
\* steps write nothing of the client or of another call.
C9_ConvertsDoNotInterfere ==
    /\ [](\A i \in 1..NumCalls :
             pc[i] = "done" => ret[i] \in AloneOutcomes(cls[i], argument[i]))
    /\ [][\A i \in 1..NumCalls : StepsAlone(i)]_vars

C9_Witness ==
    \E i, j \in 1..NumCalls :
        /\ pc[i] = "done" /\ pc[j] = "replied"
        /\ cls[i] # cls[j] /\ argument[i] # argument[j]
        /\ ret[i].ok /\ ~reply[j].ok
        /\ client.room = S("r1")

\* C10: every convert issues exactly one lookup, and none after a lookup that
\* found nobody or failed.
C10_ExactlyOneLookup ==
    \A i \in 1..NumCalls : fetches[i] = IF pc[i] = "idle" THEN 0 ELSE 1

C10_Witness ==
    \E i, j \in 1..NumCalls :
        /\ GotNobody(i) /\ fetches[i] = 1
        /\ pc[j] = "done" /\ ~reply[j].ok /\ fetches[j] = 1

====
